---- MODULE Spec2Model ----
(***************************************************************************)
(* Model of the Threes! agents of src/v2-TD_learning/agent.h: the n-tuple  *)
(* TD(0) learning slider (tdLearning_slider), the greedy k-step sliders    *)
(* and the random placer, played on the 4x4 board of board.h.              *)
(*                                                                         *)
(* Numbers.  Weights, values and rewards are exact integers, and the       *)
(* quotient result/count of Expectimax is the exact fraction               *)
(* [num |-> result, den |-> count]; the fraction 0/0 is the NaN that the   *)
(* float division 0.0f/0 produces, and every ordered comparison with it is *)
(* false, as in IEEE-754.  Rounding of float/double is not modelled.       *)
(***************************************************************************)
EXTENDS Integers, Sequences, FiniteSets, TLC

\* ------------------------------------------------------------------------
\* Bounds of the model
\* ------------------------------------------------------------------------

\* take_action calls of the slider per run (over all episodes)
MaxTurns == 2

\* episodes opened per run
MaxEpisodes == 2

\* non-empty cells of a board handed to CalculateFeatureIndex in SpecIndex
MaxProbeTiles == 1

\* ------------------------------------------------------------------------
\* Constants of agent.h
\* ------------------------------------------------------------------------

featureSize == 6

featureSize2 == 4

featureNum == 6

\* the radix of CalculateFeatureIndex (value *= 20)
Radix == 20

\* const std::array<std::array<int, featureSize>, featureNum> feature; the
\* two short descriptors are zero-filled by aggregate initialisation
Array6(s) ==
    0 :> s[1] @@ 1 :> s[2] @@ 2 :> s[3] @@ 3 :> s[4] @@ 4 :> s[5] @@ 5 :> s[6]

\* The function f as a table of its values, each computed once.
Table(f) == f @@ << >>

feature ==
    Array6(<< Array6(<<0, 1, 2, 3, 4, 5>>),
              Array6(<<4, 5, 6, 7, 8, 9>>),
              Array6(<<5, 6, 7, 9, 10, 11>>),
              Array6(<<9, 10, 11, 13, 14, 15>>),
              Array6(<<0, 1, 2, 4, 0, 0>>),
              Array6(<<2, 5, 6, 9, 0, 0>>) >>)

\* tdLearning_slider::opcode, greedy*_slider::opcode: { 0, 1, 2, 3 }
opcode == <<0, 1, 2, 3>>

\* ------------------------------------------------------------------------
\* Fractions (the float quotient result/count)
\* ------------------------------------------------------------------------

Frac(n, d) == [num |-> n, den |-> d]

IsNaN(x) == x.den = 0 /\ x.num = 0

\* x > y on floats: false when either side is NaN
FracGT(x, y) ==
    /\ x.den > 0
    /\ y.den > 0
    /\ x.num * y.den > y.num * x.den

\* integer + float
FracAddInt(k, x) == Frac(k * x.den + x.num, x.den)

\* ------------------------------------------------------------------------
\* Board dynamics (board.h)
\* ------------------------------------------------------------------------

Pos == 0..15

\* The grid whose cell p holds F(p), p = row * 4 + column.
Grid(F(_)) == Table([p \in Pos |-> F(p)])

\* board(): all cells empty, no hint, the full bag, no slide yet (last = 4)
EmptyBoard ==
    [tile |-> Grid(LAMBDA p : 0), hint |-> 0, bag |-> {1, 2, 3}, last |-> 4]

\* value of a tile of rank r: 1, 2, 3, 6, 12, ...
TileValue(r) == IF r <= 3 THEN r ELSE 3 * 2 ^ (r - 3)

\* merge rule: 1 with 2, and equal ranks from 3 up
CanMerge(a, b) ==
    \/ a = 1 /\ b = 2
    \/ a = 2 /\ b = 1
    \/ a >= 3 /\ a = b

Merged(a, b) == IF a >= 3 THEN a + 1 ELSE 3

\* The four lines of a slide, each listed from the wall the tiles move to.
Line(op, k) ==
    CASE op = 0 -> <<k, k + 4, k + 8, k + 12>>
      [] op = 1 -> <<4 * k + 3, 4 * k + 2, 4 * k + 1, 4 * k>>
      [] op = 2 -> <<k + 12, k + 8, k + 4, k>>
      [] op = 3 -> <<4 * k, 4 * k + 1, 4 * k + 2, 4 * k + 3>>

\* Where cell p lies in them: <<k, i>> with Line(op, k)[i] = p.
LinePlace(op, p) ==
    CASE op = 0 -> <<p % 4, (p \div 4) + 1>>
      [] op = 1 -> <<p \div 4, 4 - (p % 4)>>
      [] op = 2 -> <<p % 4, 4 - (p \div 4)>>
      [] op = 3 -> <<p \div 4, (p % 4) + 1>>

\* One line <<a, b, c, d>> slid by one cell towards its first element: the
\* first cell that is empty or merges with its neighbour takes the
\* neighbour, the rest of the line follows.
SlideLine(v) ==
    LET hit(i) == (v[i] = 0 /\ \E j \in (i + 1)..4 : v[j] # 0)
                  \/ (v[i] # 0 /\ CanMerge(v[i], v[i + 1]))
        first == IF hit(1) THEN 1 ELSE IF hit(2) THEN 2
                 ELSE IF hit(3) THEN 3 ELSE 0
    IN  CHOOSE out \in
            { IF f = 0 THEN [row |-> v, score |-> 0, moved |-> FALSE]
              ELSE [row |-> [i \in 1..4 |->
                               IF i < f THEN v[i]
                               ELSE IF i = f THEN
                                   (IF v[i] = 0 THEN v[i + 1]
                                    ELSE Merged(v[i], v[i + 1]))
                               ELSE IF i < 4 THEN v[i + 1]
                               ELSE 0],
                    score |-> IF v[f] = 0 THEN 0
                              ELSE TileValue(Merged(v[f], v[f + 1])),
                    moved |-> TRUE]
              : f \in {first} } : TRUE

\* the four lines of board b in direction dir, each slid
SlideLines(b, dir) ==
    Table([k \in 0..3 |->
        CHOOSE out \in
            { SlideLine(v) :
                v \in {<<b.tile[Line(dir, k)[1]], b.tile[Line(dir, k)[2]],
                         b.tile[Line(dir, k)[3]], b.tile[Line(dir, k)[4]]>>} } :
            TRUE])

\* board::slide(opcode): the new board and the reward, -1 when nothing moved
Slide(b, code) ==
    CHOOSE out \in
        { IF \E k \in 0..3 : res[k].moved
          THEN [board |->
                    [b EXCEPT
                        !.tile = Grid(LAMBDA p :
                            res[LinePlace(code % 4, p)[1]]
                                .row[LinePlace(code % 4, p)[2]]),
                        !.last = code % 4],
                reward |-> res[0].score + res[1].score
                             + res[2].score + res[3].score]
          ELSE [board |-> b, reward |-> -1]
          : res \in {SlideLines(b, code % 4)} } : TRUE

\* board::place(pos, tile, hint): the tile is written, the hint recorded and
\* taken out of the bag, which is refilled when it runs empty
Place(b, pos, tile, hint) ==
    [b EXCEPT !.tile = [b.tile EXCEPT ![pos] = tile],
              !.hint = hint,
              !.bag = IF b.bag \ {hint} = {} THEN {1, 2, 3}
                      ELSE b.bag \ {hint}]

\* board::rotate_clockwise(): new[r][c] = old[3 - c][r]
RotateClockwise(b) ==
    [b EXCEPT !.tile = Grid(LAMBDA p : b.tile[(3 - (p % 4)) * 4 + (p \div 4)])]

\* board::reflect_horizontal(): new[r][c] = old[r][3 - c]
ReflectHorizontal(b) ==
    [b EXCEPT !.tile = Grid(LAMBDA p : b.tile[(p \div 4) * 4 + (3 - (p % 4))])]

\* ------------------------------------------------------------------------
\* Weight tables (weight.h, weight_agent)
\* ------------------------------------------------------------------------

\* The value entry key of table ind holds in the weight file the agent is
\* constructed from: file 0 is all zeros, file 1 holds values from -2 to 2.
LoadedWeight(file, ind, key) ==
    IF file = 0 THEN 0 ELSE ((key + 2 * ind) % 5) - 2

\* std::vector<weight> net: len[ind] is the allocated length of table ind,
\* file the contents the tables were constructed with, and w the entries
\* changed since (every other entry still holds its constructed value).
NewNet(lens, file) == [len |-> lens, file |-> file, w |-> << >>]

\* net[ind][key] as an rvalue
NetAt(n, ind, key) ==
    IF <<ind, key>> \in DOMAIN n.w THEN n.w[<<ind, key>>]
    ELSE LoadedWeight(n.file, ind, key)

\* net[ind][key] += u
NetAdd(n, ind, key, u) ==
    [n EXCEPT !.w = (<<ind, key>> :> (NetAt(n, ind, key) + u)) @@ n.w]

\* the access net[ind][key] stays inside the allocated storage
InBounds(n, ind, key) ==
    /\ ind \in DOMAIN n.len
    /\ key >= 0
    /\ key < n.len[ind]

\* ------------------------------------------------------------------------
\* greedy1step_slider, greedy2step_slider, greedy3step_slider
\* ------------------------------------------------------------------------

\* the result of take_action: slide(bestOp), or -1 for the empty action()
GreedyReturn(st) == IF st.bestReward # -1 THEN st.bestOp ELSE -1

\* if (score > bestReward) { bestReward = score; bestOp = op; }
GreedyKeep(st, op, score) ==
    IF score > st.bestReward THEN [bestOp |-> op, bestReward |-> score]
    ELSE st

\* for (int op : opcode) of greedy1step_slider::take_action
RECURSIVE Greedy1Loop(_, _, _)
Greedy1Loop(before, k, st) ==
    IF k > 4 THEN st
    ELSE CHOOSE out \in
            { Greedy1Loop(before, k + 1, st1) :
                st1 \in { GreedyKeep(st, opcode[k], reward1) :
                    reward1 \in {Slide(before, opcode[k]).reward} } } : TRUE

\* greedy1step_slider::take_action(before)
Greedy1Step(before) ==
    GreedyReturn(Greedy1Loop(before, 1, [bestOp |-> -1, bestReward |-> -1]))

\* The innermost loop of greedy2step and greedy3step: the greatest reward
\* of one more slide of the board reached, -1 when none is legal.
RECURSIVE BestLastReward(_, _, _)
BestLastReward(reached, k, best) ==
    IF k > 4 THEN best
    ELSE CHOOSE out \in
            { BestLastReward(reached, k + 1, best1) :
                best1 \in { IF rewardN > best THEN rewardN ELSE best :
                    rewardN \in {Slide(reached, opcode[k]).reward} } } : TRUE

\* A variant of the loop below that scores a first move by the look-ahead
\* alone, leaving reward1 out.
RECURSIVE Greedy2LoopLookAheadOnly(_, _, _)
Greedy2LoopLookAheadOnly(before, k, st) ==
    IF k > 4 THEN st
    ELSE CHOOSE out \in
            { Greedy2LoopLookAheadOnly(before, k + 1, st1) :
                st1 \in { GreedyKeep(st, opcode[k],
                                     BestLastReward(firstBoard.board, 1, -1)) :
                    firstBoard \in {Slide(before, opcode[k])} } } : TRUE

\* the outer loop of greedy2step_slider::take_action
RECURSIVE Greedy2Loop(_, _, _)
Greedy2Loop(before, k, st) ==
    IF k > 4 THEN st
    ELSE CHOOSE out \in
            { Greedy2Loop(before, k + 1, st1) :
                st1 \in { GreedyKeep(st, opcode[k],
                                     firstBoard.reward
                                       + BestLastReward(firstBoard.board, 1, -1)) :
                    firstBoard \in {Slide(before, opcode[k])} } } : TRUE

\* greedy2step_slider::take_action(before)
Greedy2Step(before) ==
    GreedyReturn(Greedy2Loop(before, 1, [bestOp |-> -1, bestReward |-> -1]))

\* the middle loop of greedy3step_slider::take_action: bestReward2
RECURSIVE Greedy3Middle(_, _, _)
Greedy3Middle(first, k, best) ==
    IF k > 4 THEN best
    ELSE CHOOSE out \in
            { Greedy3Middle(first, k + 1, best1) :
                best1 \in { IF score2 > best THEN score2 ELSE best :
                    score2 \in { secondBoard.reward
                                   + BestLastReward(secondBoard.board, 1, -1) :
                        secondBoard \in {Slide(first, opcode[k])} } } } : TRUE

\* the outer loop of greedy3step_slider::take_action
RECURSIVE Greedy3Loop(_, _, _)
Greedy3Loop(before, k, st) ==
    IF k > 4 THEN st
    ELSE CHOOSE out \in
            { Greedy3Loop(before, k + 1, st1) :
                st1 \in { GreedyKeep(st, opcode[k],
                                     firstBoard.reward
                                       + Greedy3Middle(firstBoard.board, 1, -1)) :
                    firstBoard \in {Slide(before, opcode[k])} } } : TRUE

\* greedy3step_slider::take_action(before)
Greedy3Step(before) ==
    GreedyReturn(Greedy3Loop(before, 1, [bestOp |-> -1, bestReward |-> -1]))

\* ------------------------------------------------------------------------
\* tdLearning_slider: feature index and board value
\* ------------------------------------------------------------------------

\* b[row][column] for the i-th position of descriptor featureIndex
FeatureCell(b, featureIndex, i) ==
    LET row == feature[featureIndex][i] \div 4
        column == feature[featureIndex][i] % 4
    IN  b.tile[row * 4 + column]

\* A variant of the loop below with value *= 19.
FeatureLoopRadix19(b, featureIndex, size) ==
    IF size = featureSize2
    THEN (((0 * 19 + FeatureCell(b, featureIndex, 0))
              * 19 + FeatureCell(b, featureIndex, 1))
              * 19 + FeatureCell(b, featureIndex, 2))
              * 19 + FeatureCell(b, featureIndex, 3)
    ELSE (((((0 * 19 + FeatureCell(b, featureIndex, 0))
                * 19 + FeatureCell(b, featureIndex, 1))
                * 19 + FeatureCell(b, featureIndex, 2))
                * 19 + FeatureCell(b, featureIndex, 3))
                * 19 + FeatureCell(b, featureIndex, 4))
                * 19 + FeatureCell(b, featureIndex, 5)

\* The loop of CalculateFeatureIndex, for (i = 0; i < size; i++)
\* { value *= 20; value += b[row][column]; }, written out for the two
\* sizes the code uses.
FeatureLoop(b, featureIndex, size) ==
    IF size = featureSize2
    THEN (((0 * Radix + FeatureCell(b, featureIndex, 0))
              * Radix + FeatureCell(b, featureIndex, 1))
              * Radix + FeatureCell(b, featureIndex, 2))
              * Radix + FeatureCell(b, featureIndex, 3)
    ELSE (((((0 * Radix + FeatureCell(b, featureIndex, 0))
                * Radix + FeatureCell(b, featureIndex, 1))
                * Radix + FeatureCell(b, featureIndex, 2))
                * Radix + FeatureCell(b, featureIndex, 3))
                * Radix + FeatureCell(b, featureIndex, 4))
                * Radix + FeatureCell(b, featureIndex, 5)

\* unsigned long long CalculateFeatureIndex(before, featureIndex)
CalculateFeatureIndex(before, featureIndex) ==
    FeatureLoop(before, featureIndex,
                IF featureIndex > 3 THEN featureSize2 ELSE featureSize)

\* The boards CalculateBoardValue looks at, in the order of its loops: for
\* r = 0..3 the board is turned (rotate_clockwise) and then, for h = 0..1,
\* mirrored (reflect_horizontal) before the descriptors are looked up.
\* k = 2 * r + h + 1 counts the passes of the inner loop, b is the board
\* the pass before left.
RECURSIVE ValueViewLoop(_, _)
ValueViewLoop(b, k) ==
    IF k > 8 THEN << >>
    ELSE CHOOSE out \in
            { <<view>> \o ValueViewLoop(view, k + 1) :
                view \in { ReflectHorizontal(turned) :
                    turned \in {IF k % 2 = 1 THEN RotateClockwise(b)
                                ELSE b} } } : TRUE

ValueViews(before) == ValueViewLoop(before, 1)

\* the sum of the six values of f, and of the eight
Sum6(f) == f[0] + f[1] + f[2] + f[3] + f[4] + f[5]

Sum8(f) == f[1] + f[2] + f[3] + f[4] + f[5] + f[6] + f[7] + f[8]

\* for (int ind = 0; ind < featureNum; ind++)
\*     value += net[ind][CalculateFeatureIndex(b, ind)];
ValueIndLoop(n, b) ==
    CHOOSE out \in
        { Sum6(lookups) :
            lookups \in { Table([ind \in 0..(featureNum - 1) |->
                CHOOSE w \in
                    { NetAt(n, ind, key) :
                        key \in {CalculateFeatureIndex(b, ind)} } : TRUE]) } } :
        TRUE

\* float CalculateBoardValue(before): the lookups of every view, added up
CalculateBoardValue(n, before) ==
    CHOOSE value \in
        { Sum8(perView) :
            perView \in { Table([k \in 1..8 |-> ValueIndLoop(n, views[k])]) :
                views \in {ValueViews(before)} } } : TRUE

\* ------------------------------------------------------------------------
\* tdLearning_slider: action selection
\* ------------------------------------------------------------------------

\* The float -1e15 that SelectBestOp and Expectimax start their maxima
\* from, scaled to the integer range of the model.  Every value the model
\* computes lies far above it.
MinValue == -100000000

\* std::vector<int> pos of Expectimax: the edge the slide op exposes
ExpectPos(op) ==
    CASE op = 0 -> <<12, 13, 14, 15>>
      [] op = 1 -> <<0, 4, 8, 12>>
      [] op = 2 -> <<0, 1, 2, 3>>
      [] op = 3 -> <<3, 7, 11, 15>>
      [] OTHER -> <<0, 0, 0, 0>>

\* Each loop below is written as the code writes it, over a table of what
\* its iterations compute independently of the running maximum or sum.

\* auto temp = board(b); int reward = temp.slide(i);
\* float v = reward + CalculateBoardValue(temp);
ExpectSlide(n, b, i) ==
    CHOOSE out \in
        { [reward |-> temp.reward,
           v |-> IF temp.reward = -1 THEN 0
                 ELSE temp.reward + CalculateBoardValue(n, temp.board)] :
            temp \in {Slide(b, i)} } : TRUE

\* for (int i = 0; i < 4; i++): the best v over the slides that are legal
RECURSIVE ExpectSlideLoop(_, _, _)
ExpectSlideLoop(slides, i, val_max) ==
    IF i >= 4 THEN val_max
    ELSE IF slides[i].reward = -1
         THEN ExpectSlideLoop(slides, i + 1, val_max)
         ELSE ExpectSlideLoop(slides, i + 1,
                              IF slides[i].v > val_max
                              THEN slides[i].v ELSE val_max)

\* auto b = board(after); b.place(pos, b.hint(), b.hint()); and val_max
\* after the loop over the slides of b
ExpectCell(n, after, p) ==
    CHOOSE out \in
        { ExpectSlideLoop(slides, 0, MinValue) :
            slides \in { Table([i \in 0..3 |-> ExpectSlide(n, b, i)]) :
                b \in {Place(after, p, after.hint, after.hint)} } } : TRUE

\* A variant of the loop below that counts a cell only when some slide is
\* legal after the insertion.
RECURSIVE ExpectCellLoopLegalOnly(_, _, _, _, _)
ExpectCellLoopLegalOnly(after, cells, ind, result, count) ==
    IF ind >= 4 THEN [result |-> result, count |-> count]
    ELSE IF after.tile[cells[ind].pos] # 0
              \/ cells[ind].val_max <= MinValue
         THEN ExpectCellLoopLegalOnly(after, cells, ind + 1, result, count)
         ELSE ExpectCellLoopLegalOnly(after, cells, ind + 1,
                                      result + cells[ind].val_max,
                                      count + 1)

\* for (int ind = 0; ind < 4; ind++): result and count over the empty cells
RECURSIVE ExpectCellLoop(_, _, _, _, _)
ExpectCellLoop(after, cells, ind, result, count) ==
    IF ind >= 4 THEN [result |-> result, count |-> count]
    ELSE IF after.tile[cells[ind].pos] # 0
         THEN ExpectCellLoop(after, cells, ind + 1, result, count)
         ELSE ExpectCellLoop(after, cells, ind + 1,
                             IF cells[ind].val_max > MinValue
                             THEN result + cells[ind].val_max
                             ELSE result,
                             count + 1)

\* float Expectimax(after, op): result / count, NaN when count is 0
Expectimax(n, after, op) ==
    CHOOSE out \in
        { Frac(r.result, r.count) :
            r \in { ExpectCellLoop(after, cells, 0, 0, 0) :
                cells \in { Table([ind \in 0..3 |->
                    [pos |-> ExpectPos(op)[ind + 1],
                     val_max |->
                        IF after.tile[ExpectPos(op)[ind + 1]] # 0
                        THEN MinValue
                        ELSE ExpectCell(n, after, ExpectPos(op)[ind + 1])]]) } } } :
        TRUE

\* the number of candidate cells Expectimax counts
ExpectCount(after, op) ==
    Cardinality({i \in 1..4 : after.tile[ExpectPos(op)[i]] = 0})

\* auto after = board(before); board::reward reward = after.slide(op);
\* float boardValue = CalculateBoardValue(after);
\* float expectValue = Expectimax(after, op);
SelectTry(n, before, dir) ==
    CHOOSE out \in
        { [op |-> dir,
           reward |-> slid.reward,
           boardValue |-> CalculateBoardValue(n, slid.board),
           expectValue |-> Expectimax(n, slid.board, dir)] :
            slid \in {Slide(before, dir)} } : TRUE

\* A variant of the loop below that takes every legal direction whose score
\* is not below the running maximum, so that the last of equals wins.
RECURSIVE SelectLoopLastWins(_, _, _)
SelectLoopLastWins(tries, k, st) ==
    IF k > 4 THEN st
    ELSE CHOOSE out \in
            { SelectLoopLastWins(tries, k + 1, st1) :
                st1 \in { IF tries[k].reward # -1 /\ ~FracGT(st.maxValue, score)
                          THEN [bestop |-> tries[k].op, maxValue |-> score,
                                expect |-> [st.expect EXCEPT ![tries[k].op] =
                                                tries[k].expectValue]]
                          ELSE [st EXCEPT !.expect[tries[k].op] =
                                              tries[k].expectValue] :
                    score \in {FracAddInt(tries[k].reward + tries[k].boardValue,
                                          tries[k].expectValue)} } } : TRUE

\* for (int op : opcode) of SelectBestOp.  st carries bestop and maxValue
\* and, for the record of the call, what each Expectimax call returned.
RECURSIVE SelectLoop(_, _, _)
SelectLoop(tries, k, st) ==
    IF k > 4 THEN st
    ELSE CHOOSE out \in
            { SelectLoop(tries, k + 1, st1) :
                st1 \in { IF tries[k].reward # -1 /\ FracGT(score, st.maxValue)
                          THEN [bestop |-> tries[k].op, maxValue |-> score,
                                expect |-> [st.expect EXCEPT ![tries[k].op] =
                                                tries[k].expectValue]]
                          ELSE [st EXCEPT !.expect[tries[k].op] =
                                              tries[k].expectValue] :
                    score \in {FracAddInt(tries[k].reward + tries[k].boardValue,
                                          tries[k].expectValue)} } } : TRUE

\* SelectBestOp with the record of its Expectimax calls
SelectTrace(n, before) ==
    CHOOSE out \in
        { SelectLoop(tries, 1,
                     [bestop |-> -1, maxValue |-> Frac(MinValue, 1),
                      expect |-> (0 :> Frac(0, 1) @@ 1 :> Frac(0, 1)
                                    @@ 2 :> Frac(0, 1) @@ 3 :> Frac(0, 1))]) :
            tries \in { Table([k \in 1..4 |->
                                  SelectTry(n, before, opcode[k])]) } } : TRUE

\* int SelectBestOp(before)
SelectBestOp(n, before) == SelectTrace(n, before).bestop

\* ------------------------------------------------------------------------
\* tdLearning_slider: the TD(0) update
\* ------------------------------------------------------------------------

\* A variant of the views below in which the board is mirrored only in the
\* passes that turn it.
RECURSIVE TrainViewLoopOneMirror(_, _)
TrainViewLoopOneMirror(b, k) ==
    IF k > 8 THEN << >>
    ELSE CHOOSE out \in
            { <<view>> \o TrainViewLoopOneMirror(view, k + 1) :
                view \in {IF k % 2 = 1
                          THEN ReflectHorizontal(RotateClockwise(b))
                          ELSE b} } : TRUE

\* The boards train walks prev through, in the order of its loops: for
\* r = 0..3 prev is turned and then, for h = 0..1, mirrored before the
\* descriptors are updated.  k = 2 * r + h + 1 counts the passes of the
\* inner loop, b is the board the pass before left.
RECURSIVE TrainViewLoop(_, _)
TrainViewLoop(b, k) ==
    IF k > 8 THEN << >>
    ELSE CHOOSE out \in
            { <<view>> \o TrainViewLoop(view, k + 1) :
                view \in { ReflectHorizontal(turned) :
                    turned \in {IF k % 2 = 1 THEN RotateClockwise(b)
                                ELSE b} } } : TRUE

TrainViews(p) == TrainViewLoop(p, 1)

\* A variant of the loop below with -= in place of +=.
RECURSIVE TrainIndLoopSubtract(_, _, _, _)
TrainIndLoopSubtract(n, b, ind, vupdate) ==
    IF ind >= featureNum THEN n
    ELSE CHOOSE done \in
            { TrainIndLoopSubtract(n1, b, ind + 1, vupdate) :
                n1 \in { NetAdd(n, ind, key, -vupdate) :
                    key \in {CalculateFeatureIndex(b, ind)} } } : TRUE

\* for (int ind = 0; ind < featureNum; ind++) net[ind][...] += vupdate.
\* (n1 ranges over the one-element set holding the tables after this
\* iteration, so that the next iteration starts from their value.)
RECURSIVE TrainIndLoop(_, _, _, _)
TrainIndLoop(n, b, ind, vupdate) ==
    IF ind >= featureNum THEN n
    ELSE CHOOSE done \in
            { TrainIndLoop(n1, b, ind + 1, vupdate) :
                n1 \in { NetAdd(n, ind, key, vupdate) :
                    key \in {CalculateFeatureIndex(b, ind)} } } : TRUE

\* the two outer loops of train, over the views of prev
RECURSIVE TrainViewFold(_, _, _, _)
TrainViewFold(n, views, k, vupdate) ==
    IF k > 8 THEN n
    ELSE CHOOSE done \in
            { TrainViewFold(n1, views, k + 1, vupdate) :
                n1 \in {TrainIndLoop(n, views[k], 0, vupdate)} } : TRUE

\* A variant of the step below that bootstraps from next in the terminal
\* case too.
VUpdateAlwaysBootstraps(n, a, p, nx, reward) ==
    a * (CalculateBoardValue(n, nx) - CalculateBoardValue(n, p) + reward)

\* double vupdate of train
VUpdate(n, a, p, nx, reward) ==
    IF reward = -1
    THEN a * (-CalculateBoardValue(n, p))
    ELSE a * (CalculateBoardValue(n, nx) - CalculateBoardValue(n, p) + reward)

\* void train(int reward): the weights after the call, and prev as the
\* loops leave it
Train(n, a, p, nx, reward) ==
    CHOOSE out \in
        { [net |-> TrainViewFold(n, views, 1, vupdate), prev |-> views[8]] :
            vupdate \in {VUpdate(n, a, p, nx, reward)},
            views \in {TrainViews(p)} } : TRUE

\* ------------------------------------------------------------------------
\* State
\* ------------------------------------------------------------------------

VARIABLES
    phase,       \* "idle", "slide" (the slider is to move), "place", "over"
    board,       \* the board of the running episode
    turn,        \* take_action calls of the slider so far
    episodes,    \* episodes opened so far
    net,         \* weight_agent::net
    alpha,       \* weight_agent::alpha
    firstFlag,   \* tdLearning_slider::firstFlag
    prev,        \* tdLearning_slider::prev
    next,        \* tdLearning_slider::next
    afterstates, \* the boards the slider's own slides produced this episode
    call,        \* record of the last take_action of tdLearning_slider
    gcall,       \* record of the last take_action of a greedy slider
    probe,       \* two boards and their keys under CalculateFeatureIndex
    fault        \* the weight access that left the allocated tables, if any

vars == <<phase, board, turn, episodes, net, alpha, firstFlag, prev, next,
          afterstates, call, gcall, probe, fault>>

\* A board from its 16 cells in row-major order, the hint and the bag.
MkBoard(cells, hint, bag) ==
    [tile |-> Grid(LAMBDA p : cells[p + 1]), hint |-> hint, bag |-> bag,
     last |-> 4]

\* The positions play is followed from: an opening position of nine tiles,
\* another that is equal to its own transpose, a full board on which only
\* left and right are legal, and a board one tile short of full.
StartBoards ==
    { MkBoard(<<1, 2, 0, 3,
                0, 3, 0, 1,
                2, 0, 1, 0,
                0, 2, 3, 0>>, 2, {1, 3}),
      MkBoard(<<1, 2, 0, 3,
                2, 3, 1, 0,
                0, 1, 0, 0,
                3, 0, 0, 2>>, 2, {1, 3}),
      MkBoard(<<3, 3, 4, 5,
                4, 5, 3, 4,
                3, 4, 5, 3,
                4, 3, 4, 5>>, 1, {2, 3}),
      MkBoard(<<4, 5, 6, 4,
                3, 6, 5, 3,
                4, 5, 6, 4,
                3, 4, 5, 0>>, 1, {2, 3}) }

\* the learning rates the agent is constructed with (alpha=...)
Alphas == {1, -1}

\* the weight files the agent is constructed from
WeightFiles == {0, 1}

\* init=64000000,64000000,64000000,64000000,160000,160000
FullTables ==
    Array6(<<64000000, 64000000, 64000000, 64000000, 160000, 160000>>)

NoCall ==
    [valid |-> FALSE, first |-> FALSE, before |-> EmptyBoard,
     net |-> NewNet(FullTables, 0), prev |-> EmptyBoard, next |-> EmptyBoard,
     prior |-> {}, reward |-> 0, bestop |-> -1, ret |-> -1,
     expect |-> (0 :> Frac(0, 1) @@ 1 :> Frac(0, 1)
                   @@ 2 :> Frac(0, 1) @@ 3 :> Frac(0, 1))]

NoGreedyCall == [valid |-> FALSE, steps |-> 0, before |-> EmptyBoard, ret |-> -1]

NoProbe ==
    [done |-> FALSE, a |-> EmptyBoard, b |-> EmptyBoard, ind |-> 0,
     keyA |-> 0, keyB |-> 0]

NoFault == [oob |-> FALSE, ind |-> 0, key |-> 0]

\* the agent as constructed from the tables lens, before any episode
Constructed(lens) ==
    /\ phase = "idle"
    /\ board = EmptyBoard
    /\ turn = 0
    /\ episodes = 0
    /\ \E file \in WeightFiles : net = NewNet(lens, file)
    /\ alpha \in Alphas
    /\ firstFlag = FALSE
    /\ prev = EmptyBoard
    /\ next = EmptyBoard
    /\ afterstates = {}
    /\ call = NoCall
    /\ gcall = NoGreedyCall

Init ==
    /\ Constructed(FullTables)
    /\ probe = NoProbe
    /\ fault = NoFault

\* ------------------------------------------------------------------------
\* Operations
\* ------------------------------------------------------------------------

\* tdLearning_slider::open_episode, and the position the episode starts on
OpenEpisode ==
    /\ phase \in {"idle", "over"}
    /\ episodes < MaxEpisodes
    /\ episodes' = episodes + 1
    /\ phase' = "slide"
    /\ board' \in StartBoards
    /\ firstFlag' = FALSE
    /\ afterstates' = {}
    /\ UNCHANGED <<turn, net, alpha, prev, next, call, gcall, probe, fault>>

\* tdLearning_slider::take_action(before), then the slide it returns
\* applied to the board of the episode
TakeAction ==
    /\ phase = "slide"
    /\ turn < MaxTurns
    /\ \E prev1 \in {IF ~firstFlag THEN board ELSE prev} :
       \E sel \in {SelectTrace(net, board)} :
       \E s \in {Slide(board, sel.bestop)} :
       \E next1 \in {IF s.reward # -1 THEN s.board ELSE next} :
       \E t \in {Train(net, alpha, prev1, next1, s.reward)} :
           /\ net' = t.net
           /\ next' = next1
           /\ prev' = IF s.reward # -1 THEN next1 ELSE t.prev
           /\ firstFlag' = IF s.reward # -1 THEN TRUE ELSE firstFlag
           /\ board' = s.board
           /\ phase' = IF s.reward # -1 THEN "place" ELSE "over"
           /\ afterstates' = IF s.reward # -1
                             THEN afterstates \cup {s.board} ELSE afterstates
           /\ call' = [valid |-> TRUE, first |-> ~firstFlag, before |-> board,
                       net |-> net, prev |-> prev1, next |-> next1,
                       prior |-> afterstates, reward |-> s.reward,
                       bestop |-> sel.bestop,
                       ret |-> IF s.reward # -1 THEN sel.bestop ELSE -1,
                       expect |-> sel.expect]
    /\ turn' = turn + 1
    /\ UNCHANGED <<episodes, alpha, gcall, probe, fault>>

\* random_placer::take_action(after), then the placement it returns applied
\* to the board of the episode; from and to are the phases before and after
Placer(from, to) ==
    /\ phase = from
    /\ \E pos \in Pos :
         /\ board.last \in 0..3
         /\ \E i \in 1..4 : ExpectPos(board.last)[i] = pos
         /\ board.tile[pos] = 0
         /\ \E tile \in (IF board.hint # 0 THEN {board.hint} ELSE board.bag) :
              \E hint \in (IF board.hint # 0 THEN board.bag
                           ELSE board.bag \ {tile}) :
                 board' = Place(board, pos, tile, hint)
    /\ phase' = to
    /\ UNCHANGED <<turn, episodes, net, alpha, firstFlag, prev, next,
                   afterstates, call, gcall, probe, fault>>

PlaceTile == Placer("place", "slide")

Next == OpenEpisode \/ TakeAction \/ PlaceTile

Spec == Init /\ [][Next]_vars

\* ------------------------------------------------------------------------
\* The greedy sliders in play
\* ------------------------------------------------------------------------

InitGreedy ==
    /\ Init
    /\ alpha = 1
    /\ net = NewNet(FullTables, 0)

\* an episode of a greedy slider starts
GreedyOpen ==
    /\ phase \in {"idle", "gover"}
    /\ episodes < MaxEpisodes
    /\ episodes' = episodes + 1
    /\ phase' = "gslide"
    /\ board' \in StartBoards
    /\ UNCHANGED <<turn, net, alpha, firstFlag, prev, next, afterstates, call,
                   gcall, probe, fault>>

\* take_action(before) of the greedy slider that looks steps moves ahead,
\* then the slide it returns applied to the board of the episode
GreedyTakeAction ==
    /\ phase = "gslide"
    /\ turn < MaxTurns
    /\ \E steps \in 1..3 :
       \E ret \in {CASE steps = 1 -> Greedy1Step(board)
                     [] steps = 2 -> Greedy2Step(board)
                     [] steps = 3 -> Greedy3Step(board)} :
           /\ gcall' = [valid |-> TRUE, steps |-> steps, before |-> board,
                        ret |-> ret]
           /\ board' = IF ret # -1 THEN Slide(board, ret).board ELSE board
           /\ phase' = IF ret # -1 THEN "gplace" ELSE "gover"
    /\ turn' = turn + 1
    /\ UNCHANGED <<episodes, net, alpha, firstFlag, prev, next, afterstates,
                   call, probe, fault>>

GreedyPlace == Placer("gplace", "gslide")

NextGreedy == GreedyOpen \/ GreedyTakeAction \/ GreedyPlace

SpecGreedy == InitGreedy /\ [][NextGreedy]_vars

\* ------------------------------------------------------------------------
\* CalculateFeatureIndex on its own
\* ------------------------------------------------------------------------

\* the ranks a probed cell holds: the smallest tile and the greatest rank
ProbeRanks == {1, 19}

\* the boards with exactly k non-empty cells, their ranks from ProbeRanks
RECURSIVE ProbeBoardsOf(_)
ProbeBoardsOf(k) ==
    IF k = 0 THEN {EmptyBoard}
    ELSE {[b EXCEPT !.tile[p] = r] :
            b \in {c \in ProbeBoardsOf(k - 1) :
                     Cardinality({q \in Pos : c.tile[q] # 0}) = k - 1},
            p \in Pos, r \in ProbeRanks}
         \cup ProbeBoardsOf(k - 1)

InitIndex ==
    /\ Init
    /\ alpha = 1
    /\ net = NewNet(FullTables, 0)

\* CalculateFeatureIndex(a, ind) and CalculateFeatureIndex(b, ind) are
\* called, for a board a of at most MaxProbeTiles tiles and a board b of at
\* most one.
Index ==
    /\ ~probe.done
    /\ \E a \in ProbeBoardsOf(MaxProbeTiles), b \in ProbeBoardsOf(1),
          ind \in 0..(featureNum - 1) :
          probe' = [done |-> TRUE, a |-> a, b |-> b, ind |-> ind,
                    keyA |-> CalculateFeatureIndex(a, ind),
                    keyB |-> CalculateFeatureIndex(b, ind)]
    /\ UNCHANGED <<phase, board, turn, episodes, net, alpha, firstFlag, prev,
                   next, afterstates, call, gcall, fault>>

NextIndex == Index

SpecIndex == InitIndex /\ [][NextIndex]_vars

\* ------------------------------------------------------------------------
\* The agent constructed from any init argument
\* ------------------------------------------------------------------------

\* The tables init_weights allocates: the six full tables; the two tables
\* of the example in its comment, init=65536,65536; and none, when the
\* agent is given neither init nor load.
TableConfigs ==
    { FullTables, (0 :> 65536 @@ 1 :> 65536), << >> }

InitCfg ==
    /\ \E lens \in TableConfigs : Constructed(lens)
    /\ alpha = 1
    /\ net.file = 0
    /\ probe = NoProbe
    /\ fault = NoFault

\* The accesses net[ind][key] of the first CalculateBoardValue call of
\* take_action (SelectBestOp, op = 0) that leave the allocated tables, as
\* <<view, ind, key>>.
OutOfBounds(n, start) ==
    CHOOSE out \in
        { {a \in {<<k, ind, CalculateFeatureIndex(views[k], ind)>> :
                    k \in 1..8, ind \in 0..(featureNum - 1)} :
              ~InBounds(n, a[2], a[3])} :
            views \in { ValueViews(slid.board) :
                slid \in {Slide(start, opcode[1])} } } : TRUE

\* the first of them in the order of the loops
FirstOf(oob) ==
    CHOOSE a \in oob :
        \A c \in oob : a[1] < c[1] \/ (a[1] = c[1] /\ a[2] <= c[2])

\* take_action on tables that hold every entry it reads
CfgTakeAction ==
    /\ OutOfBounds(net, board) = {}
    /\ TakeAction

\* take_action reads outside the tables: the behaviour of the program is
\* undefined from here on, and phase "undefined" stands for all of it.
CfgFault ==
    /\ phase = "slide"
    /\ turn < MaxTurns
    /\ \E oob \in {OutOfBounds(net, board)} :
          /\ oob # {}
          /\ \E a \in {FirstOf(oob)} :
                fault' = [oob |-> TRUE, ind |-> a[2], key |-> a[3]]
    /\ phase' = "undefined"
    /\ turn' = turn + 1
    /\ UNCHANGED <<board, episodes, net, alpha, firstFlag, prev, next,
                   afterstates, call, gcall, probe>>

NextCfg == OpenEpisode \/ CfgTakeAction \/ CfgFault \/ PlaceTile

SpecCfg == InitCfg /\ [][NextCfg]_vars

\* ------------------------------------------------------------------------
\* Vocabulary of the properties
\* ------------------------------------------------------------------------

\* a take_action of tdLearning_slider has just returned
JustReturned == call.valid /\ phase \in {"place", "over"}

Legal(b, d) == Slide(b, d).reward # -1

\* The cell of the board that image g shows at row r, column c.  The eight
\* images, in order: transpose, quarter turn, vertical mirror, half turn,
\* anti-transpose, three-quarter turn, horizontal mirror, identity; that
\* is, for k = 1..4, the mirrored board turned k times and then the board
\* turned k times.
SymmetrySource(g, r, c) ==
    CASE g = 1 -> c * 4 + r
      [] g = 2 -> (3 - c) * 4 + r
      [] g = 3 -> (3 - r) * 4 + c
      [] g = 4 -> (3 - r) * 4 + (3 - c)
      [] g = 5 -> (3 - c) * 4 + (3 - r)
      [] g = 6 -> c * 4 + (3 - r)
      [] g = 7 -> r * 4 + (3 - c)
      [] g = 8 -> r * 4 + c

SymmetryImage(b, g) ==
    [b EXCEPT !.tile = Grid(LAMBDA p : b.tile[SymmetrySource(g, p \div 4, p % 4)])]

\* the 48 (image, descriptor) pairs, and the weight entry each one indexes
Occurrences == (1..8) \X (0..(featureNum - 1))

EntryOf(b, o) == <<o[2], CalculateFeatureIndex(SymmetryImage(b, o[1]), o[2])>>

Entries(b) == {EntryOf(b, o) : o \in Occurrences}

Multiplicity(b, e) == Cardinality({o \in Occurrences : EntryOf(b, o) = e})

\* the entries on which two weight tables can differ
Touched(n1, n2) == DOMAIN n1.w \cup DOMAIN n2.w

\* the TD step of the recorded call, on the weights as they were before it
StepOf(c) ==
    IF c.reward # -1
    THEN alpha * (c.reward + CalculateBoardValue(c.net, c.next)
                    - CalculateBoardValue(c.net, c.prev))
    ELSE alpha * (-CalculateBoardValue(c.net, c.prev))

\* the TD error of the recorded call
ErrorOf(c) ==
    IF c.reward # -1
    THEN c.reward + CalculateBoardValue(c.net, c.next)
           - CalculateBoardValue(c.net, c.prev)
    ELSE -CalculateBoardValue(c.net, c.prev)

\* ------------------------------------------------------------------------
\* C1
\* ------------------------------------------------------------------------

\* C1: every Expectimax call that SelectBestOp makes on a board with no
\* empty candidate cell for its direction returns 0, and never NaN.
C1_ZeroCandidatesGiveZero ==
    call.valid =>
        \A d \in 0..3 :
            ExpectCount(Slide(call.before, d).board, d) = 0 =>
                /\ ~IsNaN(call.expect[d])
                /\ call.expect[d].num = 0

\* ------------------------------------------------------------------------
\* C2
\* ------------------------------------------------------------------------

\* C2: whenever train runs inside take_action, prev is a board the
\* slider's own slide produced earlier in the same episode; in the
\* non-terminal case next is the afterstate of the current slide and prev
\* becomes next once train has returned.
C2_PrevIsOwnAfterstate ==
    JustReturned =>
        /\ call.prev \in call.prior
        /\ call.reward # -1 =>
              /\ call.next = Slide(call.before, call.bestop).board
              /\ prev = call.next

\* ------------------------------------------------------------------------
\* C3
\* ------------------------------------------------------------------------

\* C3: train adds one and the same step u to each of the 48 (image,
\* descriptor) entries of prev and changes nothing else, u being
\* alpha * (reward + V(next) - V(prev)), or alpha * (-V(prev)) when the
\* reward is -1, with both values taken on the weights before the call.
C3_TrainAddsOneStep ==
    JustReturned =>
        /\ \A e \in Touched(net, call.net) \cup Entries(call.prev) :
              NetAt(net, e[1], e[2]) =
                  NetAt(call.net, e[1], e[2])
                    + StepOf(call) * Multiplicity(call.prev, e)
        /\ call.reward = -1 <=> ~\E d \in 0..3 : Legal(call.before, d)

\* the terminal update has happened, with a step that is not 0
C3_Witness ==
    /\ JustReturned
    /\ call.reward = -1
    /\ StepOf(call) # 0

\* ------------------------------------------------------------------------
\* C4
\* ------------------------------------------------------------------------

\* reward + V(afterstate) + Expectimax(afterstate, d) of the recorded call
ScoreOf(c, d) ==
    LET slid == Slide(c.before, d)
    IN  FracAddInt(slid.reward + CalculateBoardValue(c.net, slid.board),
                   c.expect[d])

C7_PositiveErrorRaisesValue ==
    (JustReturned /\ alpha > 0 /\ ErrorOf(call) > 0) =>
        CalculateBoardValue(net, call.prev)
            > CalculateBoardValue(call.net, call.prev)

\* such a train has happened on a board that is its own mirror image under
\* one of the symmetries, so that several of the 48 terms share an entry
C7_Witness ==
    /\ JustReturned
    /\ alpha > 0
    /\ ErrorOf(call) > 0
    /\ \E g \in 1..7 : SymmetryImage(call.prev, g) = call.prev

\* ------------------------------------------------------------------------
\* C8
\* ------------------------------------------------------------------------

\* how often the entry e occurs among the 48 lookups of CalculateBoardValue
LookupCount(b, e) ==
    LET views == ValueViews(b)
    IN  Cardinality({o \in (1..8) \X (0..(featureNum - 1)) :
            <<o[2], CalculateFeatureIndex(views[o[1]], o[2])>> = e})

\* C8: CalculateBoardValue and train walk the same 8 views, which are the 8
\* rotation/reflection images of the board in the stated order, and the
\* entries train increments are, with multiplicities, the entries
\* CalculateBoardValue sums.
C8_SameEightViews ==
    JustReturned =>
        /\ ValueViews(call.prev) = TrainViews(call.prev)
        /\ Len(TrainViews(call.prev)) = 8
        /\ \A g \in 1..8 :
              TrainViews(call.prev)[g] = SymmetryImage(call.prev, g)
        /\ \A e \in Touched(net, call.net) \cup Entries(call.prev) :
              NetAt(net, e[1], e[2]) - NetAt(call.net, e[1], e[2])
                  = StepOf(call) * LookupCount(call.prev, e)

\* a train with a step that is not 0 has happened
C8_Witness ==
    /\ JustReturned
    /\ StepOf(call) # 0
    /\ call.reward # -1

\* ------------------------------------------------------------------------
\* C9
\* ------------------------------------------------------------------------

\* the edge that direction d exposes
ExposedEdge(d) ==
    CASE d = 0 -> {12, 13, 14, 15}
      [] d = 1 -> {0, 4, 8, 12}
      [] d = 2 -> {0, 1, 2, 3}
      [] d = 3 -> {3, 7, 11, 15}

EmptyCells(after, d) == {p \in ExposedEdge(d) : after.tile[p] = 0}

\* the greatest reward + V(result) over the legal slides of the board with
\* the hint tile placed at p, and 0 when no slide is legal
CellBest(n, after, p) ==
    LET b == [after EXCEPT !.tile[p] = after.hint]
        vals == {Slide(b, i).reward + CalculateBoardValue(n, Slide(b, i).board) :
                    i \in {j \in 0..3 : Legal(b, j)}}
    IN  IF vals = {} THEN 0
        ELSE CHOOSE v \in vals : \A x \in vals : x <= v

RECURSIVE SumBest(_, _, _)
SumBest(n, after, cells) ==
    IF cells = {} THEN 0
    ELSE LET p == CHOOSE q \in cells : TRUE
         IN  CellBest(n, after, p) + SumBest(n, after, cells \ {p})

TupleLength(ind) == IF ind > 3 THEN featureSize2 ELSE featureSize

\* C5: no take_action reads or writes a weight outside the allocated
\* tables, and once take_action has run every descriptor has a table of
\* length 20^(tuple length), whatever tables the agent was constructed
\* with.
C5_EveryAccessInBounds ==
    /\ ~fault.oob
    /\ call.valid =>
          \A ind \in 0..(featureNum - 1) :
              /\ ind \in DOMAIN net.len
              /\ net.len[ind] = Radix ^ TupleLength(ind)

\* ------------------------------------------------------------------------
\* C6
\* ------------------------------------------------------------------------

\* the cells descriptor ind reads
TuplePositions(ind) == {feature[ind][i] : i \in 0..(TupleLength(ind) - 1)}

\* C6: the keys of two boards under one descriptor lie in 0..20^k - 1,
\* differ when the boards differ in a cell the descriptor reads, and are
\* equal when they differ in no such cell.
C6_FeatureIndexCollisionFree ==
    probe.done =>
        /\ probe.keyA \in 0..(Radix ^ TupleLength(probe.ind) - 1)
        /\ probe.keyB \in 0..(Radix ^ TupleLength(probe.ind) - 1)
        /\ (\E p \in TuplePositions(probe.ind) :
                probe.a.tile[p] # probe.b.tile[p]) => probe.keyA # probe.keyB
        /\ (\A p \in TuplePositions(probe.ind) :
                probe.a.tile[p] = probe.b.tile[p]) => probe.keyA = probe.keyB

\* a short descriptor was asked for two boards, one with the greatest rank
\* in a cell it reads, the other with a tile in another cell it reads
C6_Witness ==
    /\ probe.done
    /\ probe.ind > 3
    /\ \E p, q \in TuplePositions(probe.ind) :
          /\ p # q
          /\ probe.a.tile[p] = 19
          /\ probe.b.tile[q] = 1

\* ------------------------------------------------------------------------
\* C10
\* ------------------------------------------------------------------------

\* C10: a greedy slider returns a direction that is legal on the board it
\* was given, and the empty action only when no direction is legal.
C10_GreedyReturnsLegalSlide ==
    gcall.valid =>
        /\ gcall.ret \in -1..3
        /\ gcall.ret # -1 => Legal(gcall.before, gcall.ret)
        /\ gcall.ret = -1 => \A d \in 0..3 : ~Legal(gcall.before, d)

\* a slider that looks ahead has moved on a board where its first
\* direction is illegal and a later slide earns a reward
C10_Witness ==
    /\ gcall.valid
    /\ gcall.steps > 1
    /\ gcall.ret # -1
    /\ ~Legal(gcall.before, 0)
    /\ \E d \in 0..3 : Slide(gcall.before, d).reward > 0

====
